---- MODULE Spec2Model ----
(***************************************************************************)
(* Model of engmanager_mcp.utils.parser.ProcedureParser: the procedure     *)
(* document (content + variable mapping), the variable substitutor, the    *)
(* section extractor and the step extractor.                               *)
(*                                                                         *)
(* A Python str is a sequence of one-character strings; a dict is a        *)
(* sequence of entries with pairwise distinct keys, in insertion order.    *)
(***************************************************************************)
EXTENDS Integers, Sequences, FiniteSets, TLC

VARIABLES content,    \* self.content of the parser under observation
          variables,  \* self.variables, entries [name, value] in insertion order
          ctor,       \* the (content, variables) handed to __init__
          origin,     \* the text this parser's content was derived from
          op,         \* name of the last operation run on the parser
          arg,        \* the argument of that operation (<<>> when it has none)
          result,     \* [kind, value] : what the operation returned or raised
          disk,       \* the files the settings see: config paths, procedures dir
          requests    \* the tool calls made to the server, one record per call

vars == <<content, variables, ctor, origin, op, arg, result, disk, requests>>

(***************************************************************************)
(* Bounds of the checked input space.                                      *)
(***************************************************************************)
MaxParts == 2    \* a substitution text is made of at most MaxParts parts
MaxVars  == 2    \* entries of a variable mapping
MaxLines == 3    \* lines of a markdown text

(***************************************************************************)
(* Characters.                                                             *)
(***************************************************************************)
UpperSeq == << "A","B","C","D","E","F","G","H","I","J","K","L","M",
               "N","O","P","Q","R","S","T","U","V","W","X","Y","Z" >>
DigitSeq == << "0","1","2","3","4","5","6","7","8","9" >>

Range(s) == { s[i] : i \in 1..Len(s) }

Upper      == Range(UpperSeq)
Digits     == Range(DigitSeq)
NameStart  == Upper \cup {"_"}              \* [A-Z_]
NameRest   == Upper \cup Digits \cup {"_"}  \* [A-Z0-9_]
Whitespace == {" ", "\t", "\n", "\r", "\f"} \* \s, and what str.strip() removes
NL         == "\n"

IndexIn(seq, c) == CHOOSE i \in 1..Len(seq) : seq[i] = c

\* ord(c) for the characters a placeholder name is made of
CodePoint(c) ==
    IF c \in Digits THEN 47 + IndexIn(DigitSeq, c)
    ELSE IF c \in Upper THEN 64 + IndexIn(UpperSeq, c)
    ELSE 95

\* str < str of Python, on placeholder names
RECURSIVE StrLess(_, _)
StrLess(a, b) ==
    IF a = <<>> THEN b # <<>>
    ELSE IF b = <<>> THEN FALSE
    ELSE IF a[1] # b[1] THEN CodePoint(a[1]) < CodePoint(b[1])
    ELSE StrLess(Tail(a), Tail(b))

(***************************************************************************)
(* Generic str operations.                                                 *)
(***************************************************************************)
SubStr(s, i, j) == IF j < i THEN <<>> ELSE SubSeq(s, i, j)

StartsWith(s, p) == Len(p) <= Len(s) /\ SubSeq(s, 1, Len(p)) = p

\* str.replace(old, new): leftmost non-overlapping occurrences, one pass
RECURSIVE Replace(_, _, _)
Replace(s, old, new) ==
    IF Len(s) < Len(old) \/ old = <<>> THEN s
    ELSE IF StartsWith(s, old)
         THEN new \o Replace(SubStr(s, Len(old) + 1, Len(s)), old, new)
         ELSE <<s[1]>> \o Replace(Tail(s), old, new)

\* sep.join(parts)
RECURSIVE Join(_, _)
Join(parts, sep) ==
    IF parts = <<>> THEN <<>>
    ELSE IF Len(parts) = 1 THEN parts[1]
    ELSE parts[1] \o sep \o Join(Tail(parts), sep)

\* str.split(sep) for a one-character separator
RECURSIVE SplitFrom(_, _, _)
SplitFrom(s, sep, cur) ==
    IF s = <<>> THEN <<cur>>
    ELSE IF s[1] = sep THEN <<cur>> \o SplitFrom(Tail(s), sep, <<>>)
    ELSE SplitFrom(Tail(s), sep, Append(cur, s[1]))

Split(s, sep) == SplitFrom(s, sep, <<>>)

RECURSIVE LStrip(_)
LStrip(s) == IF s # <<>> /\ s[1] \in Whitespace THEN LStrip(Tail(s)) ELSE s

RECURSIVE RStrip(_)
RStrip(s) ==
    IF s # <<>> /\ s[Len(s)] \in Whitespace
    THEN RStrip(SubSeq(s, 1, Len(s) - 1)) ELSE s

\* str.strip()
Strip(s) == RStrip(LStrip(s))

\* decimal digits of a natural number
RECURSIVE NatToStr(_)
NatToStr(n) ==
    IF n < 10 THEN <<DigitSeq[n + 1]>>
    ELSE NatToStr(n \div 10) \o <<DigitSeq[(n % 10) + 1]>>

\* str(value): a str is itself, an int is its decimal form
Str(v) ==
    IF "str" \in DOMAIN v THEN v.str
    ELSE IF v.int < 0 THEN <<"-">> \o NatToStr(-v.int)
    ELSE NatToStr(v.int)

(***************************************************************************)
(* dict helpers (insertion-ordered mapping).                               *)
(***************************************************************************)
Keys(vs) == { vs[i].name : i \in 1..Len(vs) }

(***************************************************************************)
(* substitute_variables                                                    *)
(***************************************************************************)
\* length of the longest run of characters of class cls starting at s[i]
RECURSIVE RunLen(_, _, _)
RunLen(s, i, cls) ==
    IF i <= Len(s) /\ s[i] \in cls THEN 1 + RunLen(s, i + 1, cls) ELSE 0

\* re.match of \{([A-Z_][A-Z0-9_]*)\} at position i: the end index of the
\* match, or 0 when the pattern does not match there
PlaceholderEnd(s, i) ==
    IF i + 2 <= Len(s) /\ s[i] = "{" /\ s[i + 1] \in NameStart
    THEN LET j == i + 2 + RunLen(s, i + 2, NameRest)
         IN  IF j <= Len(s) /\ s[j] = "}" THEN j ELSE 0
    ELSE 0

\* re.findall(variable_pattern, text): group 1 of the non-overlapping
\* matches, scanning left to right
RECURSIVE FindAllFrom(_, _)
FindAllFrom(s, i) ==
    IF i > Len(s) THEN <<>>
    ELSE LET e == PlaceholderEnd(s, i)
         IN  IF e = 0 THEN FindAllFrom(s, i + 1)
             ELSE <<SubStr(s, i + 1, e - 1)>> \o FindAllFrom(s, e + 1)

FindAll(s) == FindAllFrom(s, 1)

FoundVariables(text) == Range(FindAll(text))

\* found_variables - set(self.variables.keys())
MissingReverse(text, vs) == Keys(vs) \ FoundVariables(text)

Missing(text, vs) == FoundVariables(text) \ Keys(vs)

\* sorted(...) of a set of names, descending instead of ascending
RECURSIVE SortedDesc(_)
SortedDesc(S) ==
    IF S = {} THEN <<>>
    ELSE LET m == CHOOSE x \in S : \A y \in S \ {x} : StrLess(y, x)
         IN  <<m>> \o SortedDesc(S \ {m})

\* sorted(missing)
RECURSIVE Sorted(_)
Sorted(S) ==
    IF S = {} THEN <<>>
    ELSE LET m == CHOOSE x \in S : \A y \in S \ {x} : StrLess(x, y)
         IN  <<m>> \o Sorted(S \ {m})

MissingPrefix ==
    << "M","i","s","s","i","n","g"," ","r","e","q","u","i","r","e","d"," ",
       "t","e","m","p","l","a","t","e"," ",
       "v","a","r","i","a","b","l","e","s",":"," " >>

\* f"Missing required template variables: {', '.join(sorted(missing))}"
MissingMessage(missing) == MissingPrefix \o Join(Sorted(missing), <<",", " ">>)

Braced(name) == <<"{">> \o name \o <<"}">>

\* str.replace that stops after the first occurrence
RECURSIVE ReplaceFirst(_, _, _)
ReplaceFirst(s, old, new) ==
    IF Len(s) < Len(old) \/ old = <<>> THEN s
    ELSE IF StartsWith(s, old)
         THEN new \o SubStr(s, Len(old) + 1, Len(s))
         ELSE <<s[1]>> \o ReplaceFirst(Tail(s), old, new)

\* a replacement that matches the braced name whatever its letter case
ToUpperChar(c) ==
    IF c \in {"a", "b"} THEN (IF c = "a" THEN "A" ELSE "B") ELSE c
ToUpperStr(s) == [i \in 1..Len(s) |-> ToUpperChar(s[i])]
RECURSIVE ReplaceAnyCase(_, _, _)
ReplaceAnyCase(s, old, new) ==
    IF Len(s) < Len(old) \/ old = <<>> THEN s
    ELSE IF ToUpperStr(SubSeq(s, 1, Len(old))) = ToUpperStr(old)
         THEN new \o ReplaceAnyCase(SubStr(s, Len(old) + 1, Len(s)), old, new)
         ELSE <<s[1]>> \o ReplaceAnyCase(Tail(s), old, new)

\* the same, replacing only the first occurrence
ReplaceVariableFirst(text, entry) ==
    ReplaceFirst(text, Braced(entry.name), Str(entry.value))

\* the same, matching the braced name in any letter case
ReplaceVariableAnyCase(text, entry) ==
    ReplaceAnyCase(text, Braced(entry.name), Str(entry.value))

\* result.replace(f"{{{var_name}}}", str(var_value))
ReplaceVariable(text, entry) == Replace(text, Braced(entry.name), Str(entry.value))

\* the loop that stops after the first entry of the mapping
SubstituteFirstOnly(text, vs) ==
    IF vs = <<>> THEN text ELSE ReplaceVariable(text, vs[1])

\* for var_name, var_value in self.variables.items(): result = result.replace(..)
RECURSIVE SubstituteAll(_, _)
SubstituteAll(text, vs) ==
    IF vs = <<>> THEN text
    ELSE SubstituteAll(ReplaceVariable(text, vs[1]), Tail(vs))

Returned(v) == [kind |-> "return", value |-> v]
Raised(msg) == [kind |-> "TemplateParsingError", value |-> msg]
NoResult    == [kind |-> "none", value |-> <<>>]

\* a substitute_variables that never raises and leaves unknown placeholders
SubstituteLenient(text, vs) == Returned(SubstituteAll(text, vs))

\* ProcedureParser.substitute_variables, on a parser holding (text, vs)
SubstituteVariables(text, vs) ==
    IF Missing(text, vs) # {}
    THEN Raised(MissingMessage(Missing(text, vs)))
    ELSE Returned(SubstituteAll(text, vs))

(***************************************************************************)
(* extract_sections                                                        *)
(***************************************************************************)
MaxHashes == 6    \* #{1,6}

\* re.match(r'^(#{1,6})\s+(.+)$', line) on a line without "\n": <<>> when
\* the pattern does not match, else <<group(2)>>.  #{1,6} and \s+ are greedy;
\* when nothing is left for .+ the matcher gives back one whitespace.
HeadingMatch(line) ==
    LET h    == RunLen(line, 1, {"#"})
        w    == RunLen(line, h + 1, Whitespace)
        rest == SubStr(line, h + w + 1, Len(line))
    IN  IF h < 1 \/ h > MaxHashes \/ w < 1 THEN <<>>
        ELSE IF rest # <<>> THEN <<rest>>
        ELSE IF w >= 2 THEN << <<line[Len(line)]>> >>
        ELSE <<>>

\* sections[title] = body on an insertion-ordered dict
RECURSIVE DictSet(_, _, _)
DictSet(d, title, body) ==
    IF d = <<>> THEN << [title |-> title, body |-> body] >>
    ELSE IF d[1].title = title
         THEN << [title |-> title, body |-> body] >> \o Tail(d)
         ELSE << d[1] >> \o DictSet(Tail(d), title, body)

\* sections.get(title): <<>> is None, <<body>> a found body
RECURSIVE DictGet(_, _)
DictGet(d, title) ==
    IF d = <<>> THEN <<>>
    ELSE IF d[1].title = title THEN << d[1].body >>
    ELSE DictGet(Tail(d), title)

\* current_section is <<>> (None) or <<title>>; `if current_section:` is
\* false for None and for the empty title
Truthy(cs) == cs # <<>> /\ cs[1] # <<>>

SectionsStart == [sections |-> <<>>, current_section |-> <<>>, current_content |-> <<>>]

\* sections[current_section] = '\n'.join(current_content).strip()
Flush(st) ==
    DictSet(st.sections, st.current_section[1], Strip(Join(st.current_content, <<NL>>)))

\* the loop body without the `if current_section` guards: the pending body is
\* saved at every heading and every other line is appended
SectionStepUnguarded(st, line) ==
    LET m == HeadingMatch(line)
    IN  IF m # <<>>
        THEN [sections |->
                 DictSet(st.sections,
                         IF st.current_section = <<>> THEN <<>> ELSE st.current_section[1],
                         Strip(Join(st.current_content, <<NL>>))),
              current_section |-> << Strip(m[1]) >>,
              current_content |-> <<>>]
        ELSE [st EXCEPT !.current_content = Append(@, line)]

\* one iteration of `for line in self.content.split('\n')`
SectionStep(st, line) ==
    LET m == HeadingMatch(line)
    IN  IF m # <<>>
        THEN [sections |-> IF Truthy(st.current_section) THEN Flush(st) ELSE st.sections,
              current_section |-> << Strip(m[1]) >>,
              current_content |-> <<>>]
        ELSE IF Truthy(st.current_section)
             THEN [st EXCEPT !.current_content = Append(@, line)]
             ELSE st

RECURSIVE SectionLoop(_, _)
SectionLoop(st, lines) ==
    IF lines = <<>> THEN st
    ELSE SectionLoop(SectionStep(st, lines[1]), Tail(lines))

\* ProcedureParser.extract_sections
ExtractSections(text) ==
    LET st == SectionLoop(SectionsStart, Split(text, NL))
    IN  IF Truthy(st.current_section) THEN Flush(st) ELSE st.sections

\* ProcedureParser.get_section
GetSection(text, title) == DictGet(ExtractSections(text), title)

(***************************************************************************)
(* extract_steps                                                           *)
(***************************************************************************)
\* int(digits)
RECURSIVE ParseInt(_)
ParseInt(ds) ==
    IF ds = <<>> THEN 0
    ELSE 10 * ParseInt(SubSeq(ds, 1, Len(ds) - 1)) + (IndexIn(DigitSeq, ds[Len(ds)]) - 1)

\* the step pattern with a single digit, ^(\d)\.\s+(.+)$
StepMatchOneDigit(title) ==
    LET w    == RunLen(title, 3, Whitespace)
        rest == SubStr(title, w + 3, Len(title))
    IN  IF Len(title) < 2 \/ title[1] \notin Digits \/ title[2] # "." \/ w < 1
        THEN <<>>
        ELSE IF rest # <<>>
             THEN << [number |-> ParseInt(<<title[1]>>), title |-> Strip(rest)] >>
        ELSE IF w >= 2
             THEN << [number |-> ParseInt(<<title[1]>>),
                      title |-> Strip(<<title[Len(title)]>>)] >>
        ELSE <<>>

\* re.match(r'^(\d+)\.\s+(.+)$', title): <<>> when the pattern does not
\* match, else <<[number |-> int(group(1)), title |-> group(2).strip()]>>
StepMatch(title) ==
    LET d    == RunLen(title, 1, Digits)
        w    == RunLen(title, d + 2, Whitespace)
        rest == SubStr(title, d + w + 2, Len(title))
    IN  IF d < 1 \/ d + 1 > Len(title) \/ title[d + 1] # "." \/ w < 1 THEN <<>>
        ELSE IF rest # <<>>
             THEN << [number |-> ParseInt(SubSeq(title, 1, d)), title |-> Strip(rest)] >>
        ELSE IF w >= 2
             THEN << [number |-> ParseInt(SubSeq(title, 1, d)),
                      title |-> Strip(<<title[Len(title)]>>)] >>
        ELSE <<>>

\* for title, content in sections.items(): ... steps.append(...)
RECURSIVE CollectSteps(_)
CollectSteps(d) ==
    IF d = <<>> THEN <<>>
    ELSE LET m == StepMatch(d[1].title)
         IN  (IF m = <<>> THEN <<>>
              ELSE << [number |-> m[1].number, title |-> m[1].title, body |-> d[1].body] >>)
             \o CollectSteps(Tail(d))

\* x placed before the first element whose number is not smaller than its own
RECURSIVE InsertBeforeTies(_, _)
InsertBeforeTies(sorted, x) ==
    IF sorted = <<>> THEN <<x>>
    ELSE IF sorted[1].number >= x.number THEN <<x>> \o sorted
    ELSE <<sorted[1]>> \o InsertBeforeTies(Tail(sorted), x)

\* x placed after every element whose number is not greater than its own
RECURSIVE InsertStable(_, _)
InsertStable(sorted, x) ==
    IF sorted = <<>> THEN <<x>>
    ELSE IF sorted[1].number > x.number THEN <<x>> \o sorted
    ELSE <<sorted[1]>> \o InsertStable(Tail(sorted), x)

RECURSIVE SortStepsFrom(_, _)
SortStepsFrom(done, todo) ==
    IF todo = <<>> THEN done
    ELSE SortStepsFrom(InsertStable(done, todo[1]), Tail(todo))

\* a sort that puts a later equal element first
RECURSIVE SortStepsUnstableFrom(_, _)
SortStepsUnstableFrom(done, todo) ==
    IF todo = <<>> THEN done
    ELSE SortStepsUnstableFrom(InsertBeforeTies(done, todo[1]), Tail(todo))

SortStepsUnstable(steps) == SortStepsUnstableFrom(<<>>, steps)

\* steps.sort(key=lambda x: x[0]): list.sort is stable
SortSteps(steps) == SortStepsFrom(<<>>, steps)

\* ProcedureParser.extract_steps
ExtractSteps(text) == SortSteps(CollectSteps(ExtractSections(text)))

(***************************************************************************)
(* get_step, get_next_step                                                 *)
(***************************************************************************)
\* for num, title, content in steps: if num == n: return ...; return None
RECURSIVE FirstStepNumbered(_, _)
FirstStepNumbered(steps, n) ==
    IF steps = <<>> THEN <<>>
    ELSE IF Head(steps).number = n THEN << Head(steps) >>
    ELSE FirstStepNumbered(Tail(steps), n)

\* the scan returning the last match instead of the first
RECURSIVE LastStepNumbered(_, _)
LastStepNumbered(steps, n) ==
    IF steps = <<>> THEN <<>>
    ELSE IF LastStepNumbered(Tail(steps), n) # <<>>
         THEN LastStepNumbered(Tail(steps), n)
    ELSE IF Head(steps).number = n THEN << Head(steps) >>
    ELSE <<>>

\* the scan returning the first step numbered n or more
RECURSIVE FirstStepFrom(_, _)
FirstStepFrom(steps, n) ==
    IF steps = <<>> THEN <<>>
    ELSE IF Head(steps).number >= n THEN << Head(steps) >>
    ELSE FirstStepFrom(Tail(steps), n)

StepScan(steps, n) == FirstStepNumbered(steps, n)

\* ProcedureParser.get_step: None is <<>>, (title, content) is <<[title, body]>>
GetStep(text, step_number) ==
    LET found == StepScan(ExtractSteps(text), step_number)
    IN  IF found = <<>> THEN <<>>
        ELSE << [title |-> found[1].title, body |-> found[1].body] >>

NextStepScan(steps, n) == FirstStepNumbered(steps, n)

\* ProcedureParser.get_next_step: None is <<>>, (num, title, content) is <<step>>
GetNextStep(text, current_step) == NextStepScan(ExtractSteps(text), current_step + 1)

(***************************************************************************)
(* find_section_by_keyword                                                 *)
(***************************************************************************)
LowerSeq == << "a","b","c","d","e","f","g","h","i","j","k","l","m",
               "n","o","p","q","r","s","t","u","v","w","x","y","z" >>

\* str.lower() on ASCII text
LowerChar(c) == IF c \in Upper THEN LowerSeq[IndexIn(UpperSeq, c)] ELSE c
Lower(s) == [i \in 1..Len(s) |-> LowerChar(s[i])]

\* p in s, for two str
RECURSIVE In(_, _)
In(p, s) ==
    IF StartsWith(s, p) THEN TRUE
    ELSE IF s = <<>> THEN FALSE
    ELSE In(p, Tail(s))

\* the test with only the keyword lowered
KeywordMatchRaw(keyword, section) ==
    In(Lower(keyword), section.title) \/ In(Lower(keyword), section.body)

\* keyword_lower in title.lower() or keyword_lower in content.lower()
KeywordMatch(keyword, section) ==
    In(Lower(keyword), Lower(section.title)) \/ In(Lower(keyword), Lower(section.body))

\* ProcedureParser.find_section_by_keyword
FindSectionByKeyword(text, keyword) ==
    SelectSeq(ExtractSections(text), LAMBDA section : KeywordMatch(keyword, section))

(***************************************************************************)
(* format_step, get_all_steps_summary                                      *)
(***************************************************************************)
\* f"## Step {step_number}: {step_title}\n\n{content}\n"
FormatStep(step_number, step_title, body) ==
    << "#","#"," ","S","t","e","p"," " >> \o Str([int |-> step_number]) \o <<":", " ">> \o step_title
        \o <<NL, NL>> \o body \o <<NL>>

NoStepsSummary ==
    << "N","o"," ","n","u","m","b","e","r","e","d"," ","s","t","e","p","s",
       " ","f","o","u","n","d"," ","i","n"," ","p","r","o","c","e","d","u",
       "r","e","." >>

SummaryHeader ==
    << "#"," ","W","o","r","k","f","l","o","w"," ","S","t","e","p","s","\n" >>

\* f"{num}. {title}"
SummaryLine(step) == Str([int |-> step.number]) \o <<".", " ">> \o step.title

\* ProcedureParser.get_all_steps_summary
GetAllStepsSummary(text) ==
    LET steps == ExtractSteps(text)
    IN  IF steps = <<>> THEN NoStepsSummary
        ELSE Join(<<SummaryHeader>> \o [i \in 1..Len(steps) |-> SummaryLine(steps[i])],
                  <<NL>>)

(***************************************************************************)
(* Settings: the configuration paths and the files in them.  A directory   *)
(* is [exists, files], files a function from file names to file contents;  *)
(* a file content is [json |-> object] or [text |-> characters].  A JSON    *)
(* object is [procedure_file, variables], each <<>> when the key is absent. *)
(* A path is [dir, name], dir being 0 for procedures_dir and otherwise the  *)
(* position in expanded_config_paths.                                      *)
(***************************************************************************)
ConfigSuffix == << "-","c","o","n","f","i","g",".","j","s","o","n" >>
ConfigInfix  == << "-","c","o","n","f","i","g" >>

EndsWith(s, p) == Len(p) <= Len(s) /\ SubSeq(s, Len(s) - Len(p) + 1, Len(s)) = p

\* ord(c) for the characters of a file name
NameOrd(c) ==
    IF c = "-" THEN 45
    ELSE IF c = "." THEN 46
    ELSE IF c \in Digits THEN 47 + IndexIn(DigitSeq, c)
    ELSE IF c \in Upper THEN 64 + IndexIn(UpperSeq, c)
    ELSE IF c = "_" THEN 95
    ELSE 96 + IndexIn(LowerSeq, c)

\* str < str of Python, on project names
RECURSIVE NameLess(_, _)
NameLess(a, b) ==
    IF a = <<>> THEN b # <<>>
    ELSE IF b = <<>> THEN FALSE
    ELSE IF a[1] # b[1] THEN NameOrd(a[1]) < NameOrd(b[1])
    ELSE NameLess(Tail(a), Tail(b))

\* sorted(list(projects))
RECURSIVE SortedProjects(_)
SortedProjects(S) ==
    IF S = {} THEN <<>>
    ELSE LET m == CHOOSE x \in S : \A y \in S \ {x} : NameLess(x, y)
         IN  <<m>> \o SortedProjects(S \ {m})

\* Settings.expanded_config_paths: the configured paths that exist
ExpandedConfigPaths(d) == SelectSeq(d.config_paths, LAMBDA p : p.exists)

\* for config_path in ...: if (config_path / filename).exists(): return it
RECURSIVE FirstPathHolding(_, _, _)
FirstPathHolding(paths, filename, i) ==
    IF i > Len(paths) THEN <<>>
    ELSE IF filename \in DOMAIN paths[i].files THEN << [dir |-> i, name |-> filename] >>
    ELSE FirstPathHolding(paths, filename, i + 1)

\* Settings.find_project_config: None is <<>>
FindProjectConfig(d, project_name) ==
    FirstPathHolding(ExpandedConfigPaths(d), project_name \o ConfigSuffix, 1)

\* open(path).read() / json.load
ReadFile(d, path) ==
    IF path.dir = 0 THEN d.procedures_dir.files[path.name]
    ELSE ExpandedConfigPaths(d)[path.dir].files[path.name]

\* Settings.load_project_config
LoadProjectConfig(d, project_name) ==
    LET config_file == FindProjectConfig(d, project_name)
    IN  IF config_file = <<>>
        THEN [kind |-> "ProjectNotFoundError", value |-> project_name]
        ELSE LET file == ReadFile(d, config_file[1])
             IN  IF "json" \notin DOMAIN file
                 THEN [kind |-> "ConfigurationError", value |-> config_file[1].name]
                 ELSE IF file.json.procedure_file = <<>>
                 THEN [kind |-> "ConfigurationError", value |-> config_file[1].name]
                 ELSE Returned([procedure_file |-> file.json.procedure_file[1],
                                variables |-> IF file.json.variables = <<>> THEN <<>>
                                              ELSE file.json.variables[1]])

\* Settings.find_procedure_file: procedures_dir first, then the config paths
FindProcedureFile(d, filename) ==
    IF d.procedures_dir.exists /\ filename \in DOMAIN d.procedures_dir.files
    THEN << [dir |-> 0, name |-> filename] >>
    ELSE FirstPathHolding(ExpandedConfigPaths(d), filename, 1)

\* Path.stem: the name without its last suffix
Stem(name) ==
    LET dots == { i \in 2..(Len(name) - 1) : name[i] = "." }
    IN  IF dots = {} THEN name
        ELSE SubSeq(name, 1, (CHOOSE i \in dots : \A j \in dots : j <= i) - 1)

\* config_file.stem.replace("-config", "")
ProjectName(config_file) == Replace(Stem(config_file), ConfigInfix, <<>>)

\* config_path.glob("*-config.json")
Glob(dir) == { name \in DOMAIN dir.files : EndsWith(name, ConfigSuffix) }

\* Settings.list_available_projects
ListAvailableProjects(d) ==
    LET paths == ExpandedConfigPaths(d)
    IN  SortedProjects(UNION { { ProjectName(name) : name \in Glob(paths[i]) }
                               : i \in 1..Len(paths) })

(***************************************************************************)
(* The workflow tools.  A tool result is [kind, number, text]: kind tells   *)
(* which return statement produced it, number is the step number it speaks *)
(* of (0 if none), text is the returned string after its leading mark, and *)
(* is left empty for the failures before a parser exists.                  *)
(***************************************************************************)
\* a constructor that substitutes the variables into the content it stores
NewParserSubstituted(text, vs) == [content |-> SubstituteAll(text, vs), variables |-> vs]

\* ProcedureParser(content, variables)
NewParser(text, vs) == [content |-> text, variables |-> vs]

ToolResult(kind, number, text) == [kind |-> kind, number |-> number, text |-> text]

\* from settings.load_project_config(project_name) to the parser
LoadProcedure(d, project_name) ==
    LET config == LoadProjectConfig(d, project_name)
    IN  IF config.kind = "ProjectNotFoundError" THEN [kind |-> "project_not_found"]
        ELSE IF config.kind # "return" THEN [kind |-> "error"]
        ELSE LET procedure_file == FindProcedureFile(d, config.value.procedure_file)
             IN  IF procedure_file = <<>> THEN [kind |-> "procedure_not_found"]
                 ELSE [kind   |-> "parser",
                       parser |-> NewParser(ReadFile(d, procedure_file[1]).text,
                                            config.value.variables)]

\* from `project or settings.default_project` to the parser: project is
\* <<>> (None) or <<name>>
OpenProcedure(d, project) ==
    LET project_name == IF Truthy(project) THEN project ELSE d.default_project
    IN  IF ~ Truthy(project_name) THEN [kind |-> "no_project"]
        ELSE LoadProcedure(d, project_name[1])

CompleteMessage(current_step) ==
    << "W","o","r","k","f","l","o","w"," ","c","o","m","p","l","e","t","e",
           "!"," ","Y","o","u","'","v","e"," ","f","i","n","i","s","h","e","d",
           " ","s","t","e","p"," " >> \o Str([int |-> current_step])
        \o << ".","\n","\n","N","o"," ","m","o","r","e"," ","s","t","e","p","s"," ",
           "i","n"," ","t","h","i","s"," ","p","r","o","c","e","d","u","r","e",
           "." >>

\* get_next_step, from `if current_step is None` on: current_step is <<>> or <<n>>
NextStepAnswer(parser, current_step) ==
    LET cs == IF current_step = <<>> THEN 0 ELSE current_step[1]
    IN  IF cs = 0
        THEN LET step == GetStep(parser.content, 1)
             IN  IF step = <<>> THEN ToolResult("no_steps", 0, << "N","o"," ","s","t","e","p","s"," ","f","o","u","n","d"," ","i","n",
           " ","p","r","o","c","e","d","u","r","e"," ","f","i","l","e" >>)
                 ELSE ToolResult("step", 1, FormatStep(1, step[1].title, step[1].body))
        ELSE LET next_step == GetNextStep(parser.content, cs)
             IN  IF next_step = <<>> THEN ToolResult("complete", cs, CompleteMessage(cs))
                 ELSE ToolResult("step", next_step[1].number,
                                 FormatStep(next_step[1].number, next_step[1].title,
                                            next_step[1].body))

SectionNotFound(section) == << "S","e","c","t","i","o","n"," ","n","o","t"," ","f","o","u","n","d",
           ":"," " >> \o section

\* "\n".join([f"- {title}" for title, _ in matches[:5]])
Suggestions(matches) ==
    Join([i \in 1..(IF Len(matches) < 5 THEN Len(matches) ELSE 5) |->
              <<"-", " ">> \o matches[i].title], <<NL>>)

\* get_workflow_section, from parser.get_section(section) on
SectionAnswer(parser, section) ==
    LET section_content == GetSection(parser.content, section)
        matches == FindSectionByKeyword(parser.content, section)
    IN  IF section_content # <<>>
        THEN ToolResult("section", 0,
                        <<"#", "#", " ">> \o section \o <<NL, NL>> \o section_content[1])
        ELSE IF matches # <<>>
        THEN ToolResult("suggestions", 0,
                        SectionNotFound(section) \o <<NL, NL>>
                            \o << "D","i","d"," ","y","o","u"," ","m","e","a","n"," ","o","n","e"," ",
           "o","f"," ","t","h","e","s","e","?" >>
                            \o <<NL>> \o Suggestions(matches))
        ELSE ToolResult("section_not_found", 0, SectionNotFound(section))

\* the part of a tool after its parser is built; a call is
\* [tool, project, current_step, section]
ToolAnswer(call, parser) ==
    CASE call.tool = "get_next_step"        -> NextStepAnswer(parser, call.current_step)
      [] call.tool = "get_workflow_section" -> SectionAnswer(parser, call.section)
      [] call.tool = "list_workflow_steps"  ->
             ToolResult("summary", 0, GetAllStepsSummary(parser.content))

\* one whole call of a tool
Tool(d, call) ==
    LET opened == OpenProcedure(d, call.project)
    IN  IF opened.kind # "parser" THEN ToolResult(opened.kind, 0, <<>>)
        ELSE ToolAnswer(call, opened.parser)

(***************************************************************************)
(* The get_procedure resource.                                             *)
(***************************************************************************)
IncompleteWarning ==
    << "V","a","r","i","a","b","l","e"," ","s","u","b","s","t","i","t","u",
       "t","i","o","n"," ","i","n","c","o","m","p","l","e","t","e" >>

\* get_procedure(project); the result has the shape of a tool result
GetProcedure(d, project) ==
    LET opened == LoadProcedure(d, project)
    IN  IF opened.kind # "parser" THEN ToolResult(opened.kind, 0, <<>>)
        ELSE LET outcome == SubstituteVariables(opened.parser.content,
                                                opened.parser.variables)
             IN  IF outcome.kind = "return"
                 THEN ToolResult("procedure", 0, outcome.value)
                 ELSE ToolResult("incomplete", 0,
                                 IncompleteWarning \o <<NL, NL>> \o opened.parser.content)

(***************************************************************************)
(* Inputs of the substitution properties.                                  *)
(***************************************************************************)
TextParts ==
    { <<"{">>, <<"}">>, <<"a">>,
      <<"{", "A", "}">>, <<"{", "B", "}">>, <<"{", "a", "}">>,
      <<"{", "{", "A", "}", "}">> }

RECURSIVE TextsOf(_)
TextsOf(n) ==
    IF n = 0 THEN { <<>> }
    ELSE LET T == TextsOf(n - 1)
         IN  T \cup { t \o p : t \in T, p \in TextParts }

SubstTexts == TextsOf(MaxParts)

KeySet == { <<"A">>, <<"B">>, <<"a">> }

ValSet == { [str |-> <<"a">>], [str |-> <<"{", "A", "}">>], [int |-> 7] }

Entries == [name : KeySet, value : ValSet]

DistinctKeys(vs) == \A i, j \in 1..Len(vs) : i # j => vs[i].name # vs[j].name

RECURSIVE SeqsUpTo(_, _)
SeqsUpTo(S, n) ==
    IF n = 0 THEN { <<>> }
    ELSE LET T == SeqsUpTo(S, n - 1)
         IN  T \cup { Append(t, x) : t \in { u \in T : Len(u) = n - 1 }, x \in S }

Mappings == { vs \in SeqsUpTo(Entries, MaxVars) : DistinctKeys(vs) }

(***************************************************************************)
(* The parser as a state machine.                                          *)
(***************************************************************************)
\* a directory is [exists, files], files being a function from file names to
\* file contents; this is the machine without any directory
NoDir  == [exists |-> FALSE, files |-> <<>>]
NoDisk == [config_paths |-> <<>>, procedures_dir |-> NoDir, default_project |-> <<>>]

\* ProcedureParser.__init__: self.content = content, self.variables = variables
Construct(text, vs) ==
    /\ content = text
    /\ variables = vs
    /\ ctor = [content |-> text, variables |-> vs]
    /\ origin = text
    /\ op = "init"
    /\ arg = <<>>
    /\ result = NoResult
    /\ disk = NoDisk
    /\ requests = <<>>

InitSubst == \E text \in SubstTexts, vs \in Mappings : Construct(text, vs)

\* a substitute_variables() that stores its output in self.content
DoSubstituteInPlace ==
    /\ op' = "substitute_variables"
    /\ arg' = <<>>
    /\ result' = SubstituteVariables(content, variables)
    /\ content' = IF result'.kind = "return" THEN result'.value ELSE content
    /\ UNCHANGED <<variables, ctor, origin, disk, requests>>

\* parser.substitute_variables()
DoSubstituteVariables ==
    /\ op' = "substitute_variables"
    /\ arg' = <<>>
    /\ result' = SubstituteVariables(content, variables)
    /\ UNCHANGED <<content, variables, ctor, origin, disk, requests>>

\* ProcedureParser(out, variables).substitute_variables(), out being the
\* string the previous substitute_variables() returned
DoSubstituteOutput ==
    /\ op = "substitute_variables"
    /\ result.kind = "return"
    /\ content' = result.value
    /\ ctor' = [content |-> result.value, variables |-> variables]
    /\ origin' = content
    /\ op' = "substitute_output"
    /\ arg' = <<>>
    /\ result' = SubstituteVariables(result.value, variables)
    /\ UNCHANGED <<variables, disk, requests>>

NextSubst == DoSubstituteVariables \/ DoSubstituteOutput

SpecSubst == InitSubst /\ [][NextSubst]_vars

(***************************************************************************)
(* Inputs of the section and step properties: markdown texts of at most    *)
(* MaxLines lines.                                                         *)
(***************************************************************************)
SectionLines ==
    { <<"#", " ", "a">>,                          \* heading a
      <<"#", "#", " ", "a">>,                     \* heading a, one level down
      <<"#", " ", "2", ".", " ", "b">>,           \* step 2
      <<"#", " ", "1", ".", " ", "a">>,           \* step 1
      <<"#", " ", "0", "1", ".", " ", "c">>,      \* step 1 again, another title
      <<"x">>,                                    \* body text
      <<>>,                                       \* blank line
      <<"#", " ", " ">>,                          \* marks followed by blanks only
      <<"#", "a">>,                               \* no blank after the mark
      <<"#", "#", "#", "#", "#", "#", "#", " ", "a">> }   \* seven marks

\* the document of the end-to-end example: a title and two numbered steps
ExampleText ==
    << "#"," ","T","i","t","l","e","\n","\n","#","#"," ","1","."," ","F","i",
       "r","s","t"," ","S","t","e","p","\n","\n","D","o"," ","X",".","\n",
       "\n","#","#"," ","2","."," ","S","e","c","o","n","d"," ","S","t","e",
       "p","\n","\n","D","o"," ","Y",".","\n" >>

SectionTexts ==
    { Join(ls, <<NL>>) : ls \in SeqsUpTo(SectionLines, MaxLines) } \cup { ExampleText }

SectionArgs == { <<"a">>, <<"1", ".", " ", "a">>, <<"b">>, <<>> }

InitSections == \E text \in SectionTexts : Construct(text, <<>>)

\* parser.extract_sections()
DoExtractSections ==
    /\ op' = "extract_sections"
    /\ arg' = <<>>
    /\ result' = Returned(ExtractSections(content))
    /\ UNCHANGED <<content, variables, ctor, origin, disk, requests>>

\* parser.get_section(section_title)
DoGetSection ==
    \E title \in SectionArgs :
        /\ op' = "get_section"
        /\ arg' = title
        /\ result' = Returned(GetSection(content, title))
        /\ UNCHANGED <<content, variables, ctor, origin, disk, requests>>

\* parser.extract_steps()
DoExtractSteps ==
    /\ op' = "extract_steps"
    /\ arg' = <<>>
    /\ result' = Returned(ExtractSteps(content))
    /\ UNCHANGED <<content, variables, ctor, origin, disk, requests>>

NextSections == DoExtractSections \/ DoGetSection \/ DoExtractSteps

SpecSections == InitSections /\ [][NextSections]_vars

(***************************************************************************)
(* Step lookups on one parser: get_step and get_next_step.                 *)
(***************************************************************************)
StepLines ==
    { << "#"," ","1","."," ","a" >>,
      << "#"," ","0","1","."," ","c" >>,
      << "#"," ","2","."," ","b" >>,
      << "#"," ","3","."," ","c" >>,
      << "x" >>,
      << "#"," ","a" >> }

StepTexts == { Join(ls, <<NL>>) : ls \in SeqsUpTo(StepLines, MaxLines) }

\* step numbers asked for: negative, zero, present, in a gap, above all
StepArgs == -1..4

InitSteps == \E text \in StepTexts : Construct(text, <<>>)

\* parser.get_step(step_number)
DoGetStep ==
    \E step_number \in StepArgs :
        /\ op' = "get_step"
        /\ arg' = step_number
        /\ result' = Returned(GetStep(content, step_number))
        /\ UNCHANGED <<content, variables, ctor, origin, disk, requests>>

\* parser.get_next_step(current_step)
DoGetNextStep ==
    \E current_step \in StepArgs :
        /\ op' = "get_next_step"
        /\ arg' = current_step
        /\ result' = Returned(GetNextStep(content, current_step))
        /\ UNCHANGED <<content, variables, ctor, origin, disk, requests>>

NextSteps == DoGetStep \/ DoGetNextStep

SpecSteps == InitSteps /\ [][NextSteps]_vars

(***************************************************************************)
(* Keyword search on one parser: find_section_by_keyword.                  *)
(***************************************************************************)
SearchLines ==
    { << "#"," ","A","b" >>,
      << "#","#"," ","b" >>,
      << "a","B" >>,
      << "x" >>,
      << "#"," ","A","B" >> }

SearchTexts == { Join(ls, <<NL>>) : ls \in SeqsUpTo(SearchLines, MaxLines) }

SearchArgs ==
    { << "a","b" >>, << "A","B" >>, << "a","B" >>, << "b" >>, << "B" >>, <<  >>, << "z" >> }

InitSearch == \E text \in SearchTexts : Construct(text, <<>>)

\* parser.find_section_by_keyword(keyword)
DoFindSectionByKeyword ==
    \E keyword \in SearchArgs :
        /\ op' = "find_section_by_keyword"
        /\ arg' = keyword
        /\ result' = Returned(FindSectionByKeyword(content, keyword))
        /\ UNCHANGED <<content, variables, ctor, origin, disk, requests>>

NextSearch == DoFindSectionByKeyword \/ DoExtractSections

SpecSearch == InitSearch /\ [][NextSearch]_vars

(***************************************************************************)
(* Every operation of one parser, in any order.                            *)
(***************************************************************************)
DocumentLines ==
    { << "#"," ","1","."," ","{","A","}" >>,
      << "#"," ","2","."," ","b" >>,
      << "a"," ","{","B","}" >> }

DocumentTexts == { Join(ls, <<NL>>) : ls \in SeqsUpTo(DocumentLines, MaxLines) }

DocumentMappings ==
    { <<>>,
      << [name |-> <<"A">>, value |-> [str |-> <<"a">>]] >>,
      << [name |-> <<"A">>, value |-> [str |-> <<"a">>]],
         [name |-> <<"B">>, value |-> [int |-> 7]] >> }

FormatArgs ==
    { <<n, title, body>> : n \in {2, 10},
                           title \in { <<"a">>, <<"{", "A", "}">> },
                           body \in { <<>>, <<"x", NL, "y">> } }

InitDocument ==
    \E text \in DocumentTexts, vs \in DocumentMappings : Construct(text, vs)

\* parser.format_step(step_number, step_title, content)
DoFormatStep ==
    \E a \in FormatArgs :
        /\ op' = "format_step"
        /\ arg' = a
        /\ result' = Returned(FormatStep(a[1], a[2], a[3]))
        /\ UNCHANGED <<content, variables, ctor, origin, disk, requests>>

\* parser.get_all_steps_summary()
DoGetAllStepsSummary ==
    /\ op' = "get_all_steps_summary"
    /\ arg' = <<>>
    /\ result' = Returned(GetAllStepsSummary(content))
    /\ UNCHANGED <<content, variables, ctor, origin, disk, requests>>

NextDocument ==
    \/ DoSubstituteVariables
    \/ DoExtractSections
    \/ DoGetSection
    \/ DoFindSectionByKeyword
    \/ DoExtractSteps
    \/ DoGetStep
    \/ DoGetNextStep
    \/ DoFormatStep
    \/ DoGetAllStepsSummary

SpecDocument == InitDocument /\ [][NextDocument]_vars

(***************************************************************************)
(* Settings over a file system: listing projects and looking them up.      *)
(***************************************************************************)
MaxPaths == 2

ConfigFileNames ==
    { << "a","-","c","o","n","f","i","g",".","j","s","o","n" >>,
      << "b","-","c","o","n","f","i","g",".","j","s","o","n" >>,
      << "a","-","c","o","n","f","i","g","-","c","o","n","f","i","g",".","j",
       "s","o","n" >>,
      << "a",".","j","s","o","n" >> }

ProjectArgs == { << "a" >>, << "b" >>, << "a","-","c","o","n","f","i","g" >>, << "c" >> }

\* a configuration naming its procedure file
ConfigJson(procedure_file, vs) ==
    [json |-> [procedure_file |-> <<procedure_file>>, variables |-> <<vs>>]]

ProcedureName == << "p",".","m","d" >>

\* a directory holding the given configuration files
ConfigDirOf(names) ==
    [exists |-> TRUE, files |-> [n \in names |-> ConfigJson(ProcedureName, <<>>)]]

ConfigDirs == { NoDir } \cup { ConfigDirOf(names) : names \in SUBSET ConfigFileNames }

SettingsDisks ==
    { [config_paths |-> paths, procedures_dir |-> NoDir, default_project |-> <<>>] :
          paths \in SeqsUpTo(ConfigDirs, MaxPaths) }

InitSettings ==
    /\ content = <<>>
    /\ variables = <<>>
    /\ ctor = [content |-> <<>>, variables |-> <<>>]
    /\ origin = <<>>
    /\ op = "init"
    /\ arg = <<>>
    /\ result = NoResult
    /\ disk \in SettingsDisks
    /\ requests = <<>>

\* settings.list_available_projects()
DoListAvailableProjects ==
    /\ op' = "list_available_projects"
    /\ arg' = <<>>
    /\ result' = Returned(ListAvailableProjects(disk))
    /\ UNCHANGED <<content, variables, ctor, origin, disk, requests>>

\* settings.find_project_config(project_name)
DoFindProjectConfig ==
    \E project_name \in ProjectArgs :
        /\ op' = "find_project_config"
        /\ arg' = project_name
        /\ result' = Returned(FindProjectConfig(disk, project_name))
        /\ UNCHANGED <<content, variables, ctor, origin, disk, requests>>

\* settings.load_project_config(project_name)
DoLoadProjectConfig ==
    \E project_name \in ProjectArgs :
        /\ op' = "load_project_config"
        /\ arg' = project_name
        /\ result' = LoadProjectConfig(disk, project_name)
        /\ UNCHANGED <<content, variables, ctor, origin, disk, requests>>

NextSettings == DoListAvailableProjects \/ DoFindProjectConfig \/ DoLoadProjectConfig

SpecSettings == InitSettings /\ [][NextSettings]_vars

(***************************************************************************)
(* One client walking a workflow with the get_next_step tool: it starts    *)
(* without current_step and passes each returned step number back.  The    *)
(* calls made so far and their results are kept in requests.               *)
(***************************************************************************)
WorkflowLines ==
    { << "#"," ","1","."," ","a" >>,
      << "#"," ","2","."," ","b" >>,
      << "#"," ","3","."," ","c" >>,
      << "x" >> }

WorkflowTexts == { Join(ls, <<NL>>) : ls \in SeqsUpTo(WorkflowLines, MaxLines) }

WorkflowProject == <<"a">>

\* project a, configured in the only config path, its procedure in procedures_dir
DiskOf(text, vs, default_project) ==
    [config_paths    |-> << [exists |-> TRUE,
                             files  |-> [n \in { WorkflowProject \o ConfigSuffix } |->
                                            ConfigJson(ProcedureName, vs)]] >>,
     procedures_dir  |-> [exists |-> TRUE,
                          files  |-> [n \in { ProcedureName } |-> [text |-> text]]],
     default_project |-> default_project]

WorkflowDisks ==
    { DiskOf(text, <<>>, default_project) :
          text \in WorkflowTexts, default_project \in { <<>>, <<WorkflowProject>> } }

InitWorkflow ==
    /\ content = <<>>
    /\ variables = <<>>
    /\ ctor = [content |-> <<>>, variables |-> <<>>]
    /\ origin = <<>>
    /\ op = "init"
    /\ arg = <<>>
    /\ result = NoResult
    /\ disk \in WorkflowDisks
    /\ requests = <<>>

\* one call of the tool, appended to the calls made
CallTool(call) ==
    /\ requests' = Append(requests, [call |-> call, result |-> Tool(disk, call)])
    /\ op' = call.tool
    /\ arg' = call.current_step
    /\ result' = Returned(Tool(disk, call))
    /\ UNCHANGED <<content, variables, ctor, origin, disk>>

\* get_next_step(project) or get_next_step(): the first call
StartWorkflow ==
    /\ requests = <<>>
    /\ \E project \in { <<>>, <<WorkflowProject>>, << <<"b">> >> } :
          CallTool([tool |-> "get_next_step", project |-> project,
                    current_step |-> <<>>, section |-> <<>>])

\* get_next_step(project, current_step = the number of the step last returned)
ContinueWorkflow ==
    /\ requests # <<>>
    /\ requests[Len(requests)].result.kind = "step"
    /\ CallTool([tool         |-> "get_next_step",
                 project      |-> requests[1].call.project,
                 current_step |-> << requests[Len(requests)].result.number >>,
                 section      |-> <<>>])

NextWorkflow == StartWorkflow \/ ContinueWorkflow

SpecWorkflow == InitWorkflow /\ [][NextWorkflow]_vars

(***************************************************************************)
(* Reading procedures through the get_procedure resource.                  *)
(***************************************************************************)
ProcedureDisks ==
    { DiskOf(text, vs, <<>>) : text \in SubstTexts, vs \in DocumentMappings }

InitProcedure ==
    /\ content = <<>>
    /\ variables = <<>>
    /\ ctor = [content |-> <<>>, variables |-> <<>>]
    /\ origin = <<>>
    /\ op = "init"
    /\ arg = <<>>
    /\ result = NoResult
    /\ disk \in ProcedureDisks
    /\ requests = <<>>

\* engmanager://procedures/{project}
DoGetProcedure ==
    \E project \in { WorkflowProject, <<"b">> } :
        /\ op' = "get_procedure"
        /\ arg' = project
        /\ result' = Returned(GetProcedure(disk, project))
        /\ UNCHANGED <<content, variables, ctor, origin, disk, requests>>

NextProcedure == DoGetProcedure

SpecProcedure == InitProcedure /\ [][NextProcedure]_vars

(***************************************************************************)
(* Requests served side by side.  Each request is one call of a tool with  *)
(* its own locals: the parser it builds and the result it returns.  A      *)
(* handler is cut in two steps, building the parser and answering from it, *)
(* and the steps of different requests interleave freely.                  *)
(***************************************************************************)
MaxRequests == 2

RequestTexts ==
    { << "#"," ","1","."," ","{","A","}","\n","{","B","}"," ","x","\n","#"," ",
       "2","."," ","b" >>,
      << "#"," ","1","."," ","a","\n","#"," ","3","."," ","{","A","}" >>,
      << "{","A","}" >> }

OtherProcedureName == << "q",".","m","d" >>
OtherText == << "#"," ","1","."," ","c","\n","#"," ","2","."," ","d" >>

\* projects a and b share one procedure and differ in their variables;
\* project c has a procedure of its own
RequestDiskOf(text) ==
    [config_paths    |-> << [exists |-> TRUE,
                             files  |->
                                 (<<"a">> \o ConfigSuffix :>
                                      ConfigJson(ProcedureName,
                                                 << [name |-> <<"A">>, value |-> [str |-> <<"a">>]],
                                                    [name |-> <<"B">>, value |-> [int |-> 7]] >>))
                              @@ (<<"b">> \o ConfigSuffix :>
                                      ConfigJson(ProcedureName,
                                                 << [name |-> <<"A">>, value |-> [str |-> <<"b">>]] >>))
                              @@ (<<"c">> \o ConfigSuffix :>
                                      ConfigJson(OtherProcedureName, <<>>))] >>,
     procedures_dir  |-> [exists |-> TRUE,
                          files  |-> (ProcedureName :> [text |-> text])
                                  @@ (OtherProcedureName :> [text |-> OtherText])],
     default_project |-> <<>>]

RequestDisks == { RequestDiskOf(text) : text \in RequestTexts }

SharedCalls ==
    { [tool |-> "get_next_step", current_step |-> <<>>, section |-> <<>>],
      [tool |-> "get_next_step", current_step |-> <<1>>, section |-> <<>>],
      [tool |-> "get_workflow_section", current_step |-> <<>>,
       section |-> << "1","."," ","{","A","}" >>],
      [tool |-> "get_workflow_section", current_step |-> <<>>, section |-> <<"a">>],
      [tool |-> "list_workflow_steps", current_step |-> <<>>, section |-> <<>>] }

Calls ==
    { [tool |-> c.tool, project |-> << p >>,
       current_step |-> c.current_step, section |-> c.section] :
          c \in SharedCalls, p \in { <<"a">>, <<"b">> } }
    \cup { [tool |-> "list_workflow_steps", project |-> project,
            current_step |-> <<>>, section |-> <<>>] :
                project \in { <<>>, << <<"c">> >> } }

NoParser == [content |-> <<>>, variables |-> <<>>]

InitRequests ==
    /\ content = <<>>
    /\ variables = <<>>
    /\ ctor = [content |-> <<>>, variables |-> <<>>]
    /\ origin = <<>>
    /\ op = "init"
    /\ arg = <<>>
    /\ result = NoResult
    /\ disk \in RequestDisks
    /\ requests = <<>>

\* the parser every request answers from is the first request's
SharedParser(reqs, r) == reqs[1].parser

\* the local variable `parser` of request r
ParserOf(reqs, r) == reqs[r].parser

\* a call arrives
Receive ==
    /\ Len(requests) < MaxRequests
    /\ \E call \in Calls :
          requests' = Append(requests, [call   |-> call,
                                        pc     |-> "open",
                                        parser |-> NoParser,
                                        result |-> ToolResult("none", 0, <<>>)])
    /\ UNCHANGED <<content, variables, ctor, origin, op, arg, result, disk>>

\* request r resolves its project and builds its parser, or returns a failure
OpenRequest ==
    \E r \in 1..Len(requests) :
        /\ requests[r].pc = "open"
        /\ LET opened == OpenProcedure(disk, requests[r].call.project)
           IN  requests' =
                   IF opened.kind = "parser"
                   THEN [requests EXCEPT ![r].pc = "answer", ![r].parser = opened.parser]
                   ELSE [requests EXCEPT ![r].pc = "done",
                                         ![r].result = ToolResult(opened.kind, 0, <<>>)]
        /\ UNCHANGED <<content, variables, ctor, origin, op, arg, result, disk>>

\* request r queries its parser and returns
AnswerRequest ==
    \E r \in 1..Len(requests) :
        /\ requests[r].pc = "answer"
        /\ requests' = [requests EXCEPT
                            ![r].pc = "done",
                            ![r].result = ToolAnswer(requests[r].call, ParserOf(requests, r))]
        /\ UNCHANGED <<content, variables, ctor, origin, op, arg, result, disk>>

NextRequests == Receive \/ OpenRequest \/ AnswerRequest

SpecRequests == InitRequests /\ [][NextRequests]_vars

(***************************************************************************)
(* Vocabulary of the properties: occurrences, placeholders and tokens,     *)
(* stated on positions of the text rather than by scanning it.             *)
(***************************************************************************)
OccursAt(s, p, i) == i >= 1 /\ i + Len(p) - 1 <= Len(s) /\ SubStr(s, i, i + Len(p) - 1) = p

Occurs(s, p) == \E i \in 1..Len(s) : OccursAt(s, p, i)

CountOcc(s, p) == Cardinality({ i \in 1..Len(s) : OccursAt(s, p, i) })

IsName(n) ==
    /\ n # <<>>
    /\ n[1] \in NameStart
    /\ \A i \in 2..Len(n) : n[i] \in NameRest

BraceFree(s) == \A i \in 1..Len(s) : s[i] \notin {"{", "}"}

\* the names n such that "{n}" stands somewhere in s, n without braces
TokenNames(s) ==
    { SubStr(s, i + 1, j - 1) : <<i, j>> \in
        { q \in (1..Len(s)) \X (1..Len(s)) :
            /\ q[1] < q[2]
            /\ s[q[1]] = "{"
            /\ s[q[2]] = "}"
            /\ BraceFree(SubStr(s, q[1] + 1, q[2] - 1)) } }

PlaceholderNames(s) == { n \in TokenNames(s) : IsName(n) }

\* every brace of s delimits a token: "{" and "}" alternate, starting with "{"
Flat(s) ==
    LET B == SelectSeq(s, LAMBDA c : c \in {"{", "}"})
    IN  /\ Len(B) % 2 = 0
        /\ \A i \in 1..Len(B) : B[i] = (IF i % 2 = 1 THEN "{" ELSE "}")

BraceFreeMapping(vs) ==
    \A i \in 1..Len(vs) : BraceFree(vs[i].name) /\ BraceFree(Str(vs[i].value))

\* the strictly ascending listing of a set of names
Ascending(names) == \A i \in 1..(Len(names) - 1) : StrLess(names[i], names[i + 1])

Listing(S) ==
    CHOOSE names \in [1..Cardinality(S) -> S] : Range(names) = S /\ Ascending(names)

Orderings(vs) == { ws \in [1..Len(vs) -> Range(vs)] : Range(ws) = Range(vs) }

Substituted == op = "substitute_variables"

(***************************************************************************)
(* C1: whenever the text holds a placeholder {NAME} whose name is not a    *)
(* key of the mapping, substitute_variables raises TemplateParsingError,   *)
(* the message lists exactly the missing names, sorted and joined by ", ", *)
(* no string is returned, and the document is as it was constructed.       *)
(***************************************************************************)
C1_MissingNames == PlaceholderNames(content) \ Keys(variables)

C1_AtomicFailure ==
    (Substituted /\ C1_MissingNames # {}) =>
        /\ result.kind = "TemplateParsingError"
        /\ result.value = MissingPrefix \o Join(Listing(C1_MissingNames), <<",", " ">>)
        /\ content = ctor.content
        /\ variables = ctor.variables

\* the text holds a placeholder the mapping resolves next to missing ones
C1_Witness ==
    /\ Substituted
    /\ C1_MissingNames # {}
    /\ PlaceholderNames(content) \cap Keys(variables) # {}
    /\ result.kind = "TemplateParsingError"

\* two names are missing, given in the text in descending order
C1_WitnessTwo ==
    /\ Substituted
    /\ Cardinality(C1_MissingNames) = 2
    /\ FindAll(content) # Listing(C1_MissingNames)

(***************************************************************************)
(* C2 (as claimed): whenever substitute_variables succeeds, the returned   *)
(* string holds no {NAME} with NAME a key of the mapping.                  *)
(***************************************************************************)
C2_NoResolvableLeft ==
    \A k \in Keys(variables) : ~Occurs(result.value, Braced(k))

C2_Original ==
    (Substituted /\ result.kind = "return") => C2_NoResolvableLeft

(***************************************************************************)
(* C2 (amended): when the braces of the text only delimit tokens (no       *)
(* nested or stray brace) and no variable name or value holds a brace, a   *)
(* successful substitute_variables returns a string with no {NAME}, NAME a *)
(* key of the mapping.                                                     *)
(***************************************************************************)
C2_Amended ==
    (Substituted /\ result.kind = "return"
        /\ Flat(content) /\ BraceFreeMapping(variables)) => C2_NoResolvableLeft

\* a key's placeholder stands twice in a flat text and both are replaced
C2_Witness ==
    /\ Substituted
    /\ result.kind = "return"
    /\ Flat(content) /\ BraceFreeMapping(variables)
    /\ \E k \in Keys(variables) : CountOcc(content, Braced(k)) = 2
    /\ C2_NoResolvableLeft

(***************************************************************************)
(* C3 (as claimed): every braced token of the text whose name does not     *)
(* match [A-Z_][A-Z0-9_]* is found in the returned string at least as      *)
(* often as in the text, whatever the mapping.                             *)
(***************************************************************************)
C3_Untouched(names) ==
    \A n \in names :
        CountOcc(result.value, Braced(n)) >= CountOcc(content, Braced(n))

C3_Original ==
    (Substituted /\ result.kind = "return") =>
        C3_Untouched({ n \in TokenNames(content) : ~IsName(n) })

(***************************************************************************)
(* C3 (amended): every braced token of the text whose name does not match  *)
(* [A-Z_][A-Z0-9_]* and is not a key of the mapping (the keys holding no   *)
(* brace) is found in the returned string at least as often as in the     *)
(* text.                                                                   *)
(***************************************************************************)
C3_Amended ==
    (Substituted /\ result.kind = "return"
        /\ \A k \in Keys(variables) : BraceFree(k)) =>
        C3_Untouched({ n \in TokenNames(content) : ~IsName(n) } \ Keys(variables))

\* a lowercase token that is no key stays while a placeholder is replaced
C3_Witness ==
    /\ Substituted
    /\ result.kind = "return"
    /\ \E n \in TokenNames(content) \ Keys(variables) :
          ~IsName(n) /\ Occurs(result.value, Braced(n))
    /\ result.value # content

(***************************************************************************)
(* C4 (as claimed): when the string a successful substitute_variables      *)
(* returned holds no placeholder, substitute_variables on that string with *)
(* the same mapping succeeds and returns it unchanged.                     *)
(***************************************************************************)
Resubstituted == op = "substitute_output"

C4_Original ==
    (Resubstituted /\ PlaceholderNames(content) = {}) =>
        result = Returned(content)

(***************************************************************************)
(* C4 (amended): when the string a successful substitute_variables         *)
(* returned holds no placeholder and no {k} for any key k of the mapping,  *)
(* substitute_variables on that string with the same mapping succeeds and  *)
(* returns it unchanged.                                                   *)
(***************************************************************************)
C4_Clean ==
    /\ PlaceholderNames(content) = {}
    /\ \A k \in Keys(variables) : ~Occurs(content, Braced(k))

C4_Amended == (Resubstituted /\ C4_Clean) => result = Returned(content)

\* the first run replaced something and the second run sees a clean string
C4_Witness ==
    /\ Resubstituted
    /\ C4_Clean
    /\ origin # content
    /\ Keys(variables) # {}
    /\ result = Returned(content)

(***************************************************************************)
(* C5 (as claimed): when no variable's value holds the braced name of a    *)
(* variable of the mapping, every ordering of the mapping gives the same   *)
(* outcome of substitute_variables on the same text.                       *)
(***************************************************************************)
C5_NormalInputs ==
    \A i, j \in 1..Len(variables) :
        ~Occurs(Str(variables[i].value), Braced(variables[j].name))

C5_OrderFree ==
    \A ws \in Orderings(variables) : SubstituteVariables(content, ws) = result

C5_Original == (Substituted /\ C5_NormalInputs) => C5_OrderFree

(***************************************************************************)
(* C5 (amended): when the braces of the text only delimit tokens (no       *)
(* nested or stray brace) and no variable name or value holds a brace,     *)
(* every ordering of the mapping gives the same outcome of                 *)
(* substitute_variables on the same text.                                  *)
(***************************************************************************)
C5_Amended ==
    (Substituted /\ Flat(content) /\ BraceFreeMapping(variables)) => C5_OrderFree

\* two variables, both used by a flat text, both replaced
C5_Witness ==
    /\ Substituted
    /\ result.kind = "return"
    /\ Flat(content) /\ BraceFreeMapping(variables)
    /\ Len(variables) = 2
    /\ \A k \in Keys(variables) : Occurs(content, Braced(k))
    /\ C5_OrderFree

(***************************************************************************)
(* Vocabulary of the section properties, stated on the lines of the text:  *)
(* which lines are headings, the title of a heading, the lines under it.   *)
(***************************************************************************)
Lines(text) == Split(text, NL)

\* 1 to 6 '#', then at least one whitespace, then non-empty text
IsHeadingLine(line) ==
    \E h \in 1..MaxHashes : \E k \in (h + 1)..(Len(line) - 1) :
        /\ \A i \in 1..h : line[i] = "#"
        /\ \A i \in (h + 1)..k : line[i] \in Whitespace

\* the trimmed text after the '#' marks
HeadingTitle(line) ==
    LET h == CHOOSE n \in 1..MaxHashes :
                 (\A i \in 1..n : line[i] = "#") /\ line[n + 1] # "#"
    IN  Strip(SubStr(line, h + 1, Len(line)))

HeadingIdx(ls) == { i \in 1..Len(ls) : IsHeadingLine(ls[i]) }

MinOf(S) == CHOOSE x \in S : \A y \in S : x <= y
MaxOf(S) == CHOOSE x \in S : \A y \in S : x >= y

\* the index of the heading after line i, or one past the last line
NextHeading(ls, i) == MinOf({ j \in HeadingIdx(ls) : j > i } \cup {Len(ls) + 1})

\* the lines under the heading at line i, joined and trimmed
BodyUnder(ls, i) == Strip(Join(SubStr(ls, i + 1, NextHeading(ls, i) - 1), <<NL>>))

\* the headings that carry a title for the first time, in document order
RECURSIVE FirstOccurrences(_, _, _)
FirstOccurrences(ls, i, seen) ==
    IF i > Len(ls) THEN <<>>
    ELSE IF i \in HeadingIdx(ls) /\ HeadingTitle(ls[i]) \notin seen
         THEN <<i>> \o FirstOccurrences(ls, i + 1, seen \cup {HeadingTitle(ls[i])})
         ELSE FirstOccurrences(ls, i + 1, seen)

LastWith(ls, title) ==
    MaxOf({ i \in HeadingIdx(ls) : HeadingTitle(ls[i]) = title })

\* one section per distinct title, at the place of the title's first heading,
\* with the body under its last heading
SectionsByHeadings(ls) ==
    LET first == FirstOccurrences(ls, 1, {})
    IN  [k \in 1..Len(first) |->
            [title |-> HeadingTitle(ls[first[k]]),
             body  |-> BodyUnder(ls, LastWith(ls, HeadingTitle(ls[first[k]])))]]

RECURSIVE Concat(_)
Concat(seqs) == IF seqs = <<>> THEN <<>> ELSE seqs[1] \o Concat(Tail(seqs))

\* the lines of a list that are not blank, each trimmed
NonBlank(ls) ==
    SelectSeq([i \in 1..Len(ls) |-> Strip(ls[i])], LAMBDA l : l # <<>>)

\* the lines after the first heading that are not headings
LinesUnderHeadings(ls) ==
    IF HeadingIdx(ls) = {} THEN <<>>
    ELSE LET f == MinOf(HeadingIdx(ls))
             R == SubStr(ls, f + 1, Len(ls))
         IN  SelectSeq(R, LAMBDA l : ~IsHeadingLine(l))

Extracted == op = "extract_sections"

(***************************************************************************)
(* C6 (as claimed): for every text, the bodies of the sections returned by *)
(* extract_sections, concatenated in order, give back the lines that       *)
(* follow the first heading and are not headings, up to the blank lines    *)
(* and the outer whitespace that trimming removes: no such line is lost    *)
(* and none appears twice.                                                 *)
(***************************************************************************)
C6_Reconstructs ==
    Extracted =>
        NonBlank(Concat([k \in 1..Len(result.value) |-> Lines(result.value[k].body)]))
            = NonBlank(LinesUnderHeadings(Lines(content)))

(***************************************************************************)
(* C7 (as claimed): a line is a heading iff it starts with 1 to 6 '#',     *)
(* then whitespace, then non-empty text; every heading opens a section     *)
(* keyed by its trimmed text and closes the previous one, and the lines    *)
(* under it make up that section's body: extract_sections returns one      *)
(* section per distinct heading title.                                     *)
(***************************************************************************)
C7_EveryHeadingOpensSection ==
    Extracted => result.value = SectionsByHeadings(Lines(content))

(***************************************************************************)
(* C8: lines before the first heading belong to no section.  A text        *)
(* without heading line gives the empty mapping; otherwise the mapping is  *)
(* the one of the text cut at its first heading, and every section         *)
(* returned is a heading's title with the lines under that heading.        *)
(***************************************************************************)
C8_PreHeadingDiscarded ==
    Extracted =>
        LET ls == Lines(content)
            H  == HeadingIdx(ls)
        IN  /\ H = {} => result.value = <<>>
            /\ H # {} => result.value =
                    ExtractSections(Join(SubStr(ls, MinOf(H), Len(ls)), <<NL>>))
            /\ \A k \in 1..Len(result.value) : \E i \in H :
                    /\ result.value[k].title = HeadingTitle(ls[i])
                    /\ result.value[k].body = BodyUnder(ls, i)

\* a text line stands before the first heading and a section is returned
C8_Witness ==
    /\ Extracted
    /\ HeadingIdx(Lines(content)) # {}
    /\ MinOf(HeadingIdx(Lines(content))) > 1
    /\ Lines(content)[1] = <<"x">>
    /\ result.value # <<>>

\* a text with lines but no heading gives the empty mapping
C8_WitnessNoHeading ==
    /\ Extracted
    /\ HeadingIdx(Lines(content)) = {}
    /\ Len(Lines(content)) >= 2
    /\ result.value = <<>>

(***************************************************************************)
(* C9 (as claimed): get_section(title) returns the trimmed body under the  *)
(* LAST heading that has exactly that title, and None when no heading has  *)
(* it; in the mapping a title stands where its first heading stands.       *)
(***************************************************************************)
C9_LastWriteWins ==
    LET ls == Lines(content)
    IN  /\ op = "get_section" =>
              result.value =
                  IF \E i \in HeadingIdx(ls) : HeadingTitle(ls[i]) = arg
                  THEN << BodyUnder(ls, LastWith(ls, arg)) >>
                  ELSE <<>>
        /\ Extracted =>
              [k \in 1..Len(result.value) |-> result.value[k].title]
                  = [k \in 1..Len(FirstOccurrences(ls, 1, {})) |->
                        HeadingTitle(ls[FirstOccurrences(ls, 1, {})[k]])]

(***************************************************************************)
(* C10: the sequence extract_steps returns is non-decreasing by step       *)
(* number; it holds every numbered section of the mapping exactly once,    *)
(* and steps with equal numbers keep the order they have in the mapping.   *)
(***************************************************************************)
C10_Unsorted == CollectSteps(ExtractSections(content))

C10_SortedStable ==
    op = "extract_steps" =>
        LET R == result.value
            E == C10_Unsorted
            n == Len(E)
        IN  /\ Len(R) = n
            /\ \A i \in 1..(n - 1) : R[i].number <= R[i + 1].number
            /\ \E pi \in [1..n -> 1..n] :
                  /\ \A i, j \in 1..n : i # j => pi[i] # pi[j]
                  /\ \A i \in 1..n : R[i] = E[pi[i]]
                  /\ \A i, j \in 1..n :
                        (i < j /\ R[i].number = R[j].number) => pi[i] < pi[j]

\* three steps, two of them numbered alike, returned in another order than
\* the mapping's
C10_Witness ==
    /\ op = "extract_steps"
    /\ Len(result.value) = 3
    /\ result.value[1].number = result.value[2].number
    /\ result.value[1] # result.value[2]
    /\ result.value # C10_Unsorted

(***************************************************************************)
(* Vocabulary of the step properties, stated on the characters of a title. *)
(***************************************************************************)
\* digits, a dot, at least one whitespace, then non-empty text
IsStepTitle(t) ==
    \E d \in 1..Len(t) : \E k \in (d + 2)..(Len(t) - 1) :
        /\ \A i \in 1..d : t[i] \in Digits
        /\ t[d + 1] = "."
        /\ \A i \in (d + 2)..k : t[i] \in Whitespace

LeadingDigits(t) == CHOOSE d \in 1..Len(t) :
    (\A i \in 1..d : t[i] \in Digits) /\ t[d + 1] \notin Digits

\* the number the leading digits write in base ten
StepNumber(t) ==
    LET d == LeadingDigits(t)
    IN  CHOOSE n \in 0..(10^d - 1) :
            \A i \in 1..d : t[i] = DigitSeq[((n \div 10^(d - i)) % 10) + 1]

\* the step a numbered section stands for
StepOf(section) ==
    [number |-> StepNumber(section.title),
     title  |-> Strip(SubStr(section.title, LeadingDigits(section.title) + 2,
                             Len(section.title))),
     body   |-> section.body]

ExampleSteps ==
    << [number |-> 1, title |-> << "F","i","r","s","t"," ","S","t","e","p" >>,
        body |-> << "D","o"," ","X","." >>],
       [number |-> 2, title |-> << "S","e","c","o","n","d"," ","S","t","e","p" >>,
        body |-> << "D","o"," ","Y","." >>] >>

(***************************************************************************)
(* C11: extract_steps emits exactly one step per entry of the section      *)
(* mapping whose title matches ^(\d+)\.\s+(.+)$ and none for any other     *)
(* entry; the step is (value of the leading digits, trimmed remainder of   *)
(* the title, body of the section).  On the example document the steps are *)
(* (1, 'First Step', 'Do X.') and (2, 'Second Step', 'Do Y.').             *)
(***************************************************************************)
C11_OneStepPerNumberedSection ==
    op = "extract_steps" =>
        LET M == ExtractSections(content)
            I == { k \in 1..Len(M) : IsStepTitle(M[k].title) }
            R == result.value
        IN  /\ Len(R) = Cardinality(I)
            /\ \E pi \in [1..Len(R) -> I] :
                  /\ \A i, j \in 1..Len(R) : i # j => pi[i] # pi[j]
                  /\ \A i \in 1..Len(R) : R[i] = StepOf(M[pi[i]])
            /\ content = ExampleText => R = ExampleSteps

\* the example document, its title section left out and both steps returned
C11_Witness ==
    /\ op = "extract_steps"
    /\ content = ExampleText
    /\ Len(ExtractSections(content)) = 3
    /\ result.value = ExampleSteps

\* the numbers of a step sequence and the positions holding a number
StepNumbers(steps) == { steps[i].number : i \in 1..Len(steps) }
PositionsOf(steps, n) == { i \in 1..Len(steps) : steps[i].number = n }

(***************************************************************************)
(* C12: get_step(n) returns the (title, body) of the first step of the     *)
(* sorted step sequence whose number is n, and None, without raising, when *)
(* no step has number n: for negative n, zero, and n above every number.   *)
(***************************************************************************)
C12_FirstStepNumbered ==
    op = "get_step" =>
        LET S == ExtractSteps(content)
            I == PositionsOf(S, arg)
        IN  /\ result.kind = "return"
            /\ I = {} => result.value = <<>>
            /\ I # {} =>
                  result.value = << [title |-> S[MinOf(I)].title,
                                     body  |-> S[MinOf(I)].body] >>

\* two steps carry the number asked for and the earlier one is returned
C12_Witness ==
    /\ op = "get_step"
    /\ LET S == ExtractSteps(content)
           I == PositionsOf(S, arg)
       IN  /\ Cardinality(I) = 2
           /\ S[MinOf(I)].title # S[MaxOf(I)].title
           /\ result.value = << [title |-> S[MinOf(I)].title,
                                  body  |-> S[MinOf(I)].body] >>

(***************************************************************************)
(* C13: get_next_step(k) returns the step numbered exactly k+1 when there  *)
(* is one and None otherwise, also when a step with a larger number        *)
(* exists: with steps numbered {1,3}, get_next_step(1) is None.            *)
(***************************************************************************)
C13_GapStopsTraversal ==
    op = "get_next_step" =>
        LET S == ExtractSteps(content)
            I == PositionsOf(S, arg + 1)
        IN  /\ result.kind = "return"
            /\ I = {} => result.value = <<>>
            /\ I # {} => result.value = << S[MinOf(I)] >>
            /\ (StepNumbers(S) = {1, 3} /\ arg = 1) => result.value = <<>>

\* steps 1 and 3, asked for the step after 1
C13_Witness ==
    /\ op = "get_next_step"
    /\ StepNumbers(ExtractSteps(content)) = {1, 3}
    /\ arg = 1
    /\ result.value = <<>>

(***************************************************************************)
(* Vocabulary of the search property: letters compared regardless of case. *)
(***************************************************************************)
SameLetter(a, b) ==
    \/ a = b
    \/ \E i \in 1..Len(UpperSeq) : {a, b} = {UpperSeq[i], LowerSeq[i]}

SameLetters(s, t) ==
    Len(s) = Len(t) /\ \A i \in 1..Len(s) : SameLetter(s[i], t[i])

\* p occurs in s up to letter case; the empty text occurs everywhere
ContainsAnyCase(s, p) ==
    \E i \in 0..(Len(s) - Len(p)) : SameLetters(SubSeq(s, i + 1, i + Len(p)), p)

(***************************************************************************)
(* C14: find_section_by_keyword(keyword) returns exactly the sections      *)
(* whose title or body contains the keyword as a case-insensitive          *)
(* substring, all and only them, in the order of the section mapping; the  *)
(* same keyword in another letter case returns the same list.              *)
(***************************************************************************)
C14_CaseInsensitiveSearch ==
    op = "find_section_by_keyword" =>
        LET M == ExtractSections(content)
            Hit(section) == \/ ContainsAnyCase(section.title, arg)
                            \/ ContainsAnyCase(section.body, arg)
        IN  /\ result.value = SelectSeq(M, Hit)
            /\ \A other \in SearchArgs :
                  SameLetters(other, arg) =>
                      FindSectionByKeyword(content, other) = result.value

\* an upper-case keyword finds a section that holds it only in another case,
\* and leaves out a section that does not hold it
C14_Witness ==
    /\ op = "find_section_by_keyword"
    /\ \E c \in Range(arg) : c \in Upper
    /\ \E i \in 1..Len(result.value) :
          ~ In(arg, result.value[i].title) /\ ~ In(arg, result.value[i].body)
    /\ Len(result.value) < Len(ExtractSections(content))

(***************************************************************************)
(* The result of one operation on a parser freshly built from (text, vs).  *)
(***************************************************************************)
FreshResult(o, a, text, vs) ==
    CASE o = "init"                    -> NoResult
      [] o = "substitute_variables"    -> SubstituteVariables(text, vs)
      [] o = "extract_sections"        -> Returned(ExtractSections(text))
      [] o = "get_section"             -> Returned(GetSection(text, a))
      [] o = "find_section_by_keyword" -> Returned(FindSectionByKeyword(text, a))
      [] o = "extract_steps"           -> Returned(ExtractSteps(text))
      [] o = "get_step"                -> Returned(GetStep(text, a))
      [] o = "get_next_step"           -> Returned(GetNextStep(text, a))
      [] o = "format_step"             -> Returned(FormatStep(a[1], a[2], a[3]))
      [] o = "get_all_steps_summary"   -> Returned(GetAllStepsSummary(text))

(***************************************************************************)
(* C15: a parser is never mutated after construction.  After any sequence  *)
(* of its operations (substitute_variables succeeding or raising, the      *)
(* section, keyword and step queries, format_step, the summary) content    *)
(* and variables equal the constructor's arguments, so every query returns *)
(* what it returns on the document as constructed, however often repeated. *)
(***************************************************************************)
C15_NeverMutated ==
    /\ content = ctor.content
    /\ variables = ctor.variables
    /\ result = FreshResult(op, arg, ctor.content, ctor.variables)

\* a substitution that succeeded with a text other than the content, the
\* content still being the constructor's
C15_Witness ==
    /\ op = "substitute_variables"
    /\ result.kind = "return"
    /\ result.value # ctor.content
    /\ content = ctor.content

\* a substitution that raised, the content still being the constructor's
C15_WitnessRaised ==
    /\ op = "substitute_variables"
    /\ result.kind = "TemplateParsingError"
    /\ content = ctor.content

(***************************************************************************)
(* Vocabulary of the listing property: the configuration files of the      *)
(* existing paths and the project each one is the configuration of.        *)
(***************************************************************************)
ConfigFilesOn(d) ==
    UNION { { n \in DOMAIN d.config_paths[i].files : EndsWith(n, ConfigSuffix) }
            : i \in { j \in 1..Len(d.config_paths) : d.config_paths[j].exists } }

\* <project> of the file name <project>-config.json
ProjectOf(name) == SubSeq(name, 1, Len(name) - Len(ConfigSuffix))

(***************************************************************************)
(* C20 (as claimed): every name list_available_projects returns is a name  *)
(* for which find_project_config, and so load_project_config, finds a      *)
(* configuration file; every <project>-config.json file of an existing     *)
(* config path is listed under the name <project> that loads it; the list  *)
(* is sorted and has no duplicates.                                        *)
(***************************************************************************)
C20_ListingRoundTrips ==
    op = "list_available_projects" =>
        LET listed == result.value
        IN  /\ \A i \in 1..Len(listed) :
                  /\ FindProjectConfig(disk, listed[i]) # <<>>
                  /\ LoadProjectConfig(disk, listed[i]).kind = "return"
            /\ \A name \in ConfigFilesOn(disk) :
                  /\ ProjectOf(name) \in Range(listed)
                  /\ FindProjectConfig(disk, ProjectOf(name)) # <<>>
            /\ Range(listed) = { ProjectOf(name) : name \in ConfigFilesOn(disk) }
            /\ \A i \in 1..(Len(listed) - 1) : NameLess(listed[i], listed[i + 1])

(***************************************************************************)
(* Vocabulary of the traversal property.                                   *)
(***************************************************************************)
\* the procedure text a walk reads, and its step sequence
WalkedSteps == ExtractSteps(disk.procedures_dir.files[ProcedureName].text)

\* the largest k such that every number 1..k is a step
Contiguous(steps) ==
    MaxOf({ k \in 0..Len(steps) : \A n \in 1..k : n \in StepNumbers(steps) })

WalkOpens == requests # <<>> /\ OpenProcedure(disk, requests[1].call.project).kind = "parser"

\* the walk has made its last call: the last result is not a step
WalkEnded == requests # <<>> /\ requests[Len(requests)].result.kind # "step"

(***************************************************************************)
(* C17: walking a workflow with get_next_step, from no current_step and    *)
(* passing each returned number back, returns the steps 1, 2, ..., k in    *)
(* order, k the largest number with every number 1..k a step, and then the *)
(* completion message; no step above a gap is returned, the walk always    *)
(* ends, and without a step 1 the first call answers that no steps were    *)
(* found, whatever higher steps exist.  The walk ending is stated on       *)
(* finite runs: it makes at most k+1 calls and has ended exactly when it   *)
(* has made k+1.                                                           *)
(***************************************************************************)
C17_Traversal ==
    WalkOpens =>
        LET k == Contiguous(WalkedSteps)
        IN  /\ Len(requests) <= k + 1
            /\ WalkEnded <=> Len(requests) = k + 1
            /\ \A i \in 1..Len(requests) :
                  LET r == requests[i].result
                  IN  /\ i <= k =>
                            /\ r.kind = "step"
                            /\ r.number = i
                            /\ LET s == WalkedSteps[MinOf(PositionsOf(WalkedSteps, i))]
                               IN  r.text = FormatStep(i, s.title, s.body)
                      /\ (i = k + 1 /\ k > 0) => r.kind = "complete" /\ r.number = k
                      /\ (i = k + 1 /\ k = 0) => r.kind = "no_steps"

\* steps 1 and 3: step 1 was returned, then the completion message
C17_Witness ==
    /\ WalkOpens
    /\ StepNumbers(WalkedSteps) = {1, 3}
    /\ Len(requests) = 2
    /\ requests[1].result.kind = "step"
    /\ requests[2].result.kind = "complete"
    /\ requests[2].result.number = 1

\* only step 2: the first call finds no steps
C17_WitnessNoFirstStep ==
    /\ WalkOpens
    /\ StepNumbers(WalkedSteps) = {2}
    /\ Len(requests) = 1
    /\ requests[1].result.kind = "no_steps"

(***************************************************************************)
(* Vocabulary of the resource property: the procedure file and the         *)
(* variables of the project that was asked for.                            *)
(***************************************************************************)
ProcedureFound ==
    /\ op = "get_procedure"
    /\ FindProjectConfig(disk, arg) # <<>>
    /\ ProcedureName \in DOMAIN disk.procedures_dir.files

RawProcedure == disk.procedures_dir.files[ProcedureName].text

ConfiguredVariables ==
    disk.config_paths[1].files[arg \o ConfigSuffix].json.variables[1]

(***************************************************************************)
(* C18: for a project whose configuration and procedure file are found,    *)
(* get_procedure returns either the fully substituted content, when        *)
(* substitute_variables succeeds, or, when it raises, the raw file content *)
(* after the 'Variable substitution incomplete' warning; it never returns  *)
(* a partially substituted document and never passes the error on.         *)
(***************************************************************************)
C18_WholeOrRaw ==
    ProcedureFound =>
        LET missing == PlaceholderNames(RawProcedure) \ Keys(ConfiguredVariables)
            answer  == result.value
        IN  /\ result.kind = "return"
            /\ missing = {} =>
                  /\ answer.kind = "procedure"
                  /\ answer.text = SubstituteAll(RawProcedure, ConfiguredVariables)
            /\ missing # {} =>
                  /\ answer.kind = "incomplete"
                  /\ answer.text = IncompleteWarning \o <<NL, NL>> \o RawProcedure

\* one placeholder has a value and another has none: the raw text comes back
C18_Witness ==
    /\ ProcedureFound
    /\ PlaceholderNames(RawProcedure) \cap Keys(ConfiguredVariables) # {}
    /\ PlaceholderNames(RawProcedure) \ Keys(ConfiguredVariables) # {}
    /\ result.value.kind = "incomplete"
    /\ result.value.text = IncompleteWarning \o <<NL, NL>> \o RawProcedure

(***************************************************************************)
(* Vocabulary of the request properties: what a project is configured      *)
(* with, read from the files.                                              *)
(***************************************************************************)
ConfigOf(project) == disk.config_paths[1].files[project \o ConfigSuffix].json

RawTextOf(project) == disk.procedures_dir.files[ConfigOf(project).procedure_file[1]].text

MappingOf(project) == ConfigOf(project).variables[1]

Done(r) == requests[r].pc = "done"

\* the request named a configured project, so a parser was built for it
Opened(r) ==
    /\ requests[r].call.project # <<>>
    /\ requests[r].call.project[1] \o ConfigSuffix \in DOMAIN disk.config_paths[1].files

(***************************************************************************)
(* C16: requests served concurrently do not interfere.  Whatever the       *)
(* interleaving of their steps, every request returns the result its call  *)
(* returns when run alone, and the parser it holds is the one built from   *)
(* its own project.                                                        *)
(***************************************************************************)
C16_NoInterference ==
    \A r \in 1..Len(requests) :
        /\ Done(r) => requests[r].result = Tool(disk, requests[r].call)
        /\ (requests[r].pc = "answer" \/ (Done(r) /\ Opened(r))) =>
              /\ requests[r].parser.content = RawTextOf(requests[r].call.project[1])
              /\ requests[r].parser.variables = MappingOf(requests[r].call.project[1])

\* the second request ran from start to end while the first, on another
\* procedure, stood between its two steps
C16_Witness ==
    /\ Len(requests) = 2
    /\ requests[1].pc = "answer"
    /\ Done(2)
    /\ Opened(2)
    /\ requests[1].parser.content # requests[2].parser.content
    /\ requests[2].result.kind = "summary"

\* the same query of the same text, for projects with different variables
SameQuery(r, s) ==
    /\ Done(r) /\ Done(s)
    /\ Opened(r) /\ Opened(s)
    /\ requests[r].call.tool = requests[s].call.tool
    /\ requests[r].call.current_step = requests[s].call.current_step
    /\ requests[r].call.section = requests[s].call.section
    /\ RawTextOf(requests[r].call.project[1]) = RawTextOf(requests[s].call.project[1])

(***************************************************************************)
(* C19: section and step queries do not depend on the variable mapping.    *)
(* Two calls of the same tool with the same arguments on the same content  *)
(* return the same result whatever the variables of their projects, and    *)
(* that result is the one a parser with no variables gives on the raw      *)
(* text: get_next_step, get_workflow_section and list_workflow_steps       *)
(* return placeholders unsubstituted.                                      *)
(***************************************************************************)
C19_MappingIndependent ==
    \A r, s \in 1..Len(requests) :
        SameQuery(r, s) =>
            /\ requests[r].result = requests[s].result
            /\ requests[r].result =
                   ToolAnswer(requests[r].call,
                              [content   |-> RawTextOf(requests[r].call.project[1]),
                               variables |-> <<>>])

\* the same step asked of two projects that give A different values: both
\* answers are the same text, with {A} still in it
C19_Witness ==
    /\ Len(requests) = 2
    /\ SameQuery(1, 2)
    /\ MappingOf(requests[1].call.project[1]) # MappingOf(requests[2].call.project[1])
    /\ <<"A">> \in Keys(MappingOf(requests[1].call.project[1]))
                     \cap Keys(MappingOf(requests[2].call.project[1]))
    /\ requests[1].result.kind = "step"
    /\ Occurs(requests[1].result.text, <<"{", "A", "}">>)
    /\ requests[1].result = requests[2].result

====
